---- MODULE Spec2Model ----
(***************************************************************************)
(* A model of ndn-js's PublisherID codec (js/publisher-id.js) and of        *)
(* VerificationHelpers.verifySignaturePromise                               *)
(* (js/security/verification-helpers.js).                                   *)
(*                                                                          *)
(* JavaScript values are modelled as follows.  A byte array is a sequence   *)
(* of byte values, the null reference in a byte-array field is NullBytes,   *)
(* a PublisherType object is the number held by its Tag field and the null  *)
(* reference in the publisherType field is NullType.  An exception is the   *)
(* string that names it; "none" says that nothing was thrown.               *)
(***************************************************************************)
EXTENDS Integers, Sequences, FiniteSets, Bags

VARIABLES
    pub,          \* the PublisherID object that to_ndnb is called on
    encoder,      \* the BinaryXMLEncoder: the elements written so far
    decoder,      \* the BinaryXMLDecoder: input elements, cursor, reads made
    decoded,      \* the PublisherID object that from_ndnb is called on
    lastOp,       \* the last codec operation and what it did
    useSubtle,    \* what UseSubtleCrypto() answers in this environment
    hashIsString, \* typeof Crypto.createHash('sha256').digest() === 'string'
    verifyUsesString_, \* VerificationHelpers.verifyUsesString_
    call,         \* the last verifySignaturePromise invocation, as it returned
    promises,     \* the bag of promises returned by the calls that went to crypto.subtle
    flagsUsed     \* history: the flag values the synchronous verifications used

codecVars == <<pub, encoder, decoder, decoded, lastOp>>
verifyVars == <<useSubtle, hashIsString, verifyUsesString_, call, promises, flagsUsed>>
vars == <<pub, encoder, decoder, decoded, lastOp,
          useSubtle, hashIsString, verifyUsesString_, call, promises, flagsUsed>>

(***************************************************************************)
(* Bounds of the model.                                                     *)
(***************************************************************************)
MaxLen == 1        \* longest digest byte sequence
MaxInput == 1      \* most elements in a decoder's input
MaxPromises == 2   \* most verifications handed to the asynchronous engine

(***************************************************************************)
(* The wire tags of the four identifier variants (NDNProtocolDTags).        *)
(***************************************************************************)
PublisherPublicKeyDigest == 59
PublisherCertificateDigest == 60
PublisherIssuerKeyDigest == 61
PublisherIssuerCertificateDigest == 62
\* A DTag that is none of the four.
OtherDTag == PublisherIssuerCertificateDigest + 1

NullBytes == <<-1>>
NullType == -2

ByteValues == {171}
ByteArrays == UNION {[1..n -> ByteValues] : n \in 0..MaxLen}

\* new PublisherType(tag): KEY, CERTIFICATE, ISSUER_KEY, ISSUER_CERTIFICATE.
PublisherType == {PublisherPublicKeyDigest, PublisherCertificateDigest,
                  PublisherIssuerKeyDigest, PublisherIssuerCertificateDigest}

\* new PublisherID(): both fields null.
PublisherID == [publisherID |-> NullBytes, publisherType |-> NullType]

(***************************************************************************)
(* The decoder and encoder capabilities.  An element of the input is the    *)
(* set of DTags the decoder reports it to match (one tag in well-formed     *)
(* wire data, several in a crafted input) and its binary payload, NullBytes *)
(* when the payload is absent or unreadable.                                *)
(***************************************************************************)
Elements == [tags : (SUBSET PublisherType \ {{}}) \cup {{OtherDTag}},
             bytes : ByteArrays \cup {NullBytes}]

NewDecoder(input) == [input |-> input, offset |-> 1, reads |-> 0]

\* decoder.peekDTag(tag): does the element at the cursor carry the tag?
peekDTag(d, tag) ==
    /\ d.offset <= Len(d.input)
    /\ tag \in d.input[d.offset].tags

\* decoder.readBinaryDTagElement(tag): the payload of the element at the
\* cursor, consumed; null when there is no such element.
readBinaryDTagElement(d, tag) ==
    IF peekDTag(d, tag)
    THEN [value |-> d.input[d.offset].bytes,
          decoder |-> [d EXCEPT !.offset = @ + 1, !.reads = @ + 1]]
    ELSE [value |-> NullBytes,
          decoder |-> [d EXCEPT !.reads = @ + 1]]

\* encoder.writeDTagElement(tag, bytes): appends one tagged binary element.
writeDTagElement(e, tag, bytes) ==
    [e EXCEPT !.output = Append(@, [tags |-> {tag}, bytes |-> bytes])]

\* peekAndGetNextDTag with the first two probes in the other order.
peekAndGetNextDTag_CertificateFirst(d) ==
    IF peekDTag(d, PublisherCertificateDigest)
    THEN [tag |-> PublisherCertificateDigest,
          probes |-> <<PublisherCertificateDigest>>]
    ELSE IF peekDTag(d, PublisherPublicKeyDigest)
    THEN [tag |-> PublisherPublicKeyDigest,
          probes |-> <<PublisherCertificateDigest, PublisherPublicKeyDigest>>]
    ELSE IF peekDTag(d, PublisherIssuerKeyDigest)
    THEN [tag |-> PublisherIssuerKeyDigest,
          probes |-> <<PublisherCertificateDigest, PublisherPublicKeyDigest,
                       PublisherIssuerKeyDigest>>]
    ELSE IF peekDTag(d, PublisherIssuerCertificateDigest)
    THEN [tag |-> PublisherIssuerCertificateDigest,
          probes |-> <<PublisherCertificateDigest, PublisherPublicKeyDigest,
                       PublisherIssuerKeyDigest, PublisherIssuerCertificateDigest>>]
    ELSE [tag |-> -1,
          probes |-> <<PublisherCertificateDigest, PublisherPublicKeyDigest,
                       PublisherIssuerKeyDigest, PublisherIssuerCertificateDigest>>]

(***************************************************************************)
(* PublisherID.peekAndGetNextDTag: the DTag found, or -1, and the peekDTag  *)
(* calls it made, in the order it made them.                                *)
(***************************************************************************)
peekAndGetNextDTag(d) ==
    IF peekDTag(d, PublisherPublicKeyDigest)
    THEN [tag |-> PublisherPublicKeyDigest,
          probes |-> <<PublisherPublicKeyDigest>>]
    ELSE IF peekDTag(d, PublisherCertificateDigest)
    THEN [tag |-> PublisherCertificateDigest,
          probes |-> <<PublisherPublicKeyDigest, PublisherCertificateDigest>>]
    ELSE IF peekDTag(d, PublisherIssuerKeyDigest)
    THEN [tag |-> PublisherIssuerKeyDigest,
          probes |-> <<PublisherPublicKeyDigest, PublisherCertificateDigest,
                       PublisherIssuerKeyDigest>>]
    ELSE IF peekDTag(d, PublisherIssuerCertificateDigest)
    THEN [tag |-> PublisherIssuerCertificateDigest,
          probes |-> <<PublisherPublicKeyDigest, PublisherCertificateDigest,
                       PublisherIssuerKeyDigest, PublisherIssuerCertificateDigest>>]
    ELSE [tag |-> -1,
          probes |-> <<PublisherPublicKeyDigest, PublisherCertificateDigest,
                       PublisherIssuerKeyDigest, PublisherIssuerCertificateDigest>>]

\* PublisherID.peek
peek(d) == peekAndGetNextDTag(d).tag >= 0

\* PublisherID.prototype.getElementLabel: this.publisherType.Tag, a TypeError
\* when publisherType is null.
getElementLabel(this) ==
    IF this.publisherType = NullType
    THEN [threw |-> "TypeError: Cannot read properties of null (reading 'Tag')",
          value |-> NullType]
    ELSE [threw |-> "none", value |-> this.publisherType]

(***************************************************************************)
(* PublisherID.prototype.validate evaluates id(), a call of an identifier   *)
(* that nothing declares: the evaluation throws a ReferenceError before     *)
(* either field is looked at.                                               *)
(***************************************************************************)
validate(this) ==
    [threw |-> "ReferenceError: id is not defined", value |-> FALSE]

(***************************************************************************)
(* PublisherID.prototype.to_ndnb.  The message of the Error of line 62 is   *)
(* built from this.getClass(), which PublisherID does not have, so that     *)
(* statement throws a TypeError instead of the Error it constructs.         *)
(***************************************************************************)
to_ndnb(this, e) ==
    LET v == validate(this)
        label == getElementLabel(this)
    IN  IF v.threw # "none"
        THEN [encoder |-> e, threw |-> v.threw]
        ELSE IF ~v.value
        THEN [encoder |-> e, threw |-> "TypeError: this.getClass is not a function"]
        ELSE IF label.threw # "none"
        THEN [encoder |-> e, threw |-> label.threw]
        ELSE [encoder |-> writeDTagElement(e, label.value, this.publisherID),
              threw |-> "none"]

\* from_ndnb with the payload read before the tag is tested.
from_ndnb_ReadsFirst(this, d) ==
    LET next == peekAndGetNextDTag(d)
        nextTag == next.tag
        r == readBinaryDTagElement(d, nextTag)
        read == [this EXCEPT !.publisherType = nextTag, !.publisherID = r.value]
    IN  IF nextTag < 0
        THEN [this |-> read, decoder |-> r.decoder, probes |-> next.probes,
              threw |-> "Error: Invalid publisher ID, got unexpected type"]
        ELSE IF r.value = NullBytes
        THEN [this |-> read, decoder |-> r.decoder, probes |-> next.probes,
              threw |-> "ReferenceError: ContentDecodingException is not defined"]
        ELSE [this |-> read, decoder |-> r.decoder, probes |-> next.probes,
              threw |-> "none"]

(***************************************************************************)
(* PublisherID.prototype.from_ndnb.  publisherType is assigned before the   *)
(* tag is tested.  ContentDecodingException is not declared in the file,    *)
(* so constructing it throws a ReferenceError.                              *)
(***************************************************************************)
from_ndnb(this, d) ==
    LET next == peekAndGetNextDTag(d)
        nextTag == next.tag
        typed == [this EXCEPT !.publisherType = nextTag]
    IN  IF nextTag < 0
        THEN [this |-> typed, decoder |-> d, probes |-> next.probes,
              threw |-> "Error: Invalid publisher ID, got unexpected type"]
        ELSE LET r == readBinaryDTagElement(d, nextTag)
                 read == [typed EXCEPT !.publisherID = r.value]
             IN  IF r.value = NullBytes
                 THEN [this |-> read, decoder |-> r.decoder, probes |-> next.probes,
                       threw |-> "ReferenceError: ContentDecodingException is not defined"]
                 ELSE [this |-> read, decoder |-> r.decoder, probes |-> next.probes,
                       threw |-> "none"]

(***************************************************************************)
(* The codec's state machine.  lastOp records the last codec operation:     *)
(* its name, the object, encoder and decoder it was called with, what it    *)
(* threw, what it returned and the peekDTag calls it made.                  *)
(***************************************************************************)
NoOp == [op |-> "none", this |-> PublisherID, encoder |-> [output |-> <<>>],
         decoder |-> NewDecoder(<<>>), threw |-> "none", value |-> -1,
         probes |-> <<>>]

CodecInit ==
    /\ pub = PublisherID
    /\ encoder = [output |-> <<>>]
    /\ decoder = NewDecoder(<<>>)
    /\ decoded = PublisherID
    /\ lastOp = NoOp

\* The caller makes a PublisherID to encode, fills in its fields and makes
\* an encoder for it.
SetFields ==
    /\ \E t \in PublisherType \cup {NullType}, b \in ByteArrays \cup {NullBytes} :
           pub' = [publisherID |-> b, publisherType |-> t]
    /\ encoder' = [output |-> <<>>]
    /\ decoder' = NewDecoder(<<>>)
    /\ decoded' = PublisherID
    /\ lastOp' = NoOp
    /\ UNCHANGED verifyVars

\* pub.to_ndnb(encoder)
Encode ==
    /\ Len(encoder.output) < MaxInput
    /\ LET r == to_ndnb(pub, encoder) IN
           /\ encoder' = r.encoder
           /\ lastOp' = [NoOp EXCEPT !.op = "to_ndnb", !.this = pub,
                                     !.encoder = encoder, !.threw = r.threw]
    /\ UNCHANGED <<pub, decoder, decoded>>
    /\ UNCHANGED verifyVars

\* A decoder is made over what the encoder wrote, and a new PublisherID to
\* decode into.
Feed ==
    /\ lastOp.op = "to_ndnb"
    /\ decoder' = NewDecoder(encoder.output)
    /\ decoded' = PublisherID
    /\ lastOp' = NoOp
    /\ UNCHANGED <<pub, encoder>>
    /\ UNCHANGED verifyVars

\* The caller makes a decoder for input from the wire, and a new PublisherID
\* to decode into.
Receive ==
    /\ decoder' = NewDecoder(<<>>)
    /\ decoded' = PublisherID
    /\ pub' = PublisherID
    /\ encoder' = [output |-> <<>>]
    /\ lastOp' = NoOp
    /\ UNCHANGED verifyVars

\* The input of the decoder that the caller decodes from holds one more
\* element.
Arrive ==
    /\ Len(decoder.input) < MaxInput
    /\ \E e \in Elements : decoder' = [decoder EXCEPT !.input = Append(@, e)]
    /\ pub' = PublisherID
    /\ encoder' = [output |-> <<>>]
    /\ lastOp' = NoOp
    /\ UNCHANGED decoded
    /\ UNCHANGED verifyVars

\* PublisherID.peekAndGetNextDTag(decoder)
Peek ==
    /\ LET r == peekAndGetNextDTag(decoder) IN
           lastOp' = [NoOp EXCEPT !.op = "peekAndGetNextDTag", !.decoder = decoder,
                                  !.value = r.tag, !.probes = r.probes]
    /\ UNCHANGED <<pub, encoder, decoder, decoded>>
    /\ UNCHANGED verifyVars

\* PublisherID.peek(decoder)
CanDecode ==
    /\ lastOp' = [NoOp EXCEPT !.op = "peek", !.decoder = decoder,
                              !.value = IF peek(decoder) THEN 1 ELSE 0,
                              !.probes = peekAndGetNextDTag(decoder).probes]
    /\ UNCHANGED <<pub, encoder, decoder, decoded>>
    /\ UNCHANGED verifyVars

\* decoded.from_ndnb(decoder)
Decode ==
    /\ LET r == from_ndnb(decoded, decoder) IN
           /\ decoded' = r.this
           /\ decoder' = r.decoder
           /\ lastOp' = [NoOp EXCEPT !.op = "from_ndnb", !.this = decoded,
                                     !.decoder = decoder, !.threw = r.threw,
                                     !.probes = r.probes]
    /\ UNCHANGED <<pub, encoder>>
    /\ UNCHANGED verifyVars

CodecNext ==
    SetFields \/ Encode \/ Feed \/ Receive \/ Arrive \/ Peek \/ CanDecode \/ Decode

(***************************************************************************)
(* VerificationHelpers.verifySignaturePromise.                              *)
(*                                                                          *)
(* The arguments of a call: keyArg says what the publicKey argument is (a   *)
(* PublicKey object, DER bytes that PublicKey parses, or bytes it does      *)
(* not), keyType what getKeyType() answers, digestArg and useSyncArg the    *)
(* fourth and fifth arguments as the caller wrote them.  The collaborators  *)
(* of the call: throws names the first of them to throw when it is called   *)
(* ("none": none does) and verdict is what verifier.verify answers.         *)
(***************************************************************************)
KeyArgs == {"PublicKey", "DER", "garbage"}
KeyTypes == {"RSA", "ECDSA", "OTHER"}   \* "none": the bytes are no key
DigestArgs == {"undefined", "true", "false", "SHA256", "SHA512"}
UseSyncArgs == {"undefined", "true", "false"}

\* The calls: bytes that are no key have no key type, and a call whose fourth
\* argument is a boolean is the form without digestAlgorithm, which has no
\* fifth argument.
CallerArgs == {a \in [keyArg : KeyArgs, keyType : KeyTypes \cup {"none"},
                      digestArg : DigestArgs, useSyncArg : UseSyncArgs] :
                  /\ a.keyArg = "garbage" <=> a.keyType = "none"
                  /\ a.digestArg \in {"true", "false"} => a.useSyncArg = "undefined"}

\* Lines 56-60: a boolean fourth argument is useSync; !useSync is then
\* what line 82 tests.
useSync(digestArg, useSyncArg) ==
    IF digestArg \in {"true", "false"} THEN digestArg = "true"
    ELSE useSyncArg = "true"

\* Lines 56-60 and 77-78: the digest algorithm the call works with.
DigestAlgorithm(digestArg) ==
    IF digestArg \in {"true", "false"} THEN "SHA256"
    ELSE IF digestArg = "undefined" THEN "SHA256"
    ELSE digestArg

\* Line 82 without the test of useSync.
UseSubtleCrypto_IgnoresUseSync(subtle, sync) == subtle

\* Line 82: UseSubtleCrypto() && !useSync
UseSubtleCrypto(subtle, sync) == subtle /\ ~sync

\* The branches with the key type tested before the digest algorithm.
Branch_KeyTypeFirst(a, subtle) ==
    IF a.keyArg = "garbage" THEN "Error decoding public key DER"
    ELSE IF a.keyType \notin {"RSA", "ECDSA"} THEN "Invalid key type"
    ELSE IF DigestAlgorithm(a.digestArg) # "SHA256" THEN "Invalid digest algorithm"
    ELSE IF a.keyType = "ECDSA" THEN "sha256"
    ELSE IF UseSubtleCrypto(subtle, useSync(a.digestArg, a.useSyncArg))
    THEN "crypto.subtle"
    ELSE "RSA-SHA256"

(***************************************************************************)
(* The branch of lines 66-142 that a call takes.                            *)
(***************************************************************************)
Branch(a, subtle) ==
    IF a.keyArg = "garbage" THEN "Error decoding public key DER"
    ELSE IF DigestAlgorithm(a.digestArg) = "SHA256"
    THEN IF a.keyType = "RSA"
         THEN IF UseSubtleCrypto(subtle, useSync(a.digestArg, a.useSyncArg))
              THEN "crypto.subtle"
              ELSE "RSA-SHA256"
         ELSE IF a.keyType = "ECDSA"
         THEN "sha256"
         ELSE "Invalid key type"
    ELSE "Invalid digest algorithm"

\* What the collaborators that a branch calls can do.
Collaborators(branch, flag) ==
    IF branch \in {"RSA-SHA256", "sha256"}
    THEN {[throws |-> t, verdict |-> FALSE] :
              t \in {"getKeyDer", "createVerify", "verify"}
                    \cup (IF flag = "null" THEN {"createHash"} ELSE {})}
         \cup {[throws |-> "none", verdict |-> v] : v \in BOOLEAN}
    ELSE IF branch = "crypto.subtle"
    THEN {[throws |-> t, verdict |-> FALSE] : t \in {"none", "getKeyDer", "importKey"}}
    ELSE {[throws |-> "none", verdict |-> FALSE]}

\* setVerifyUsesString_ with the test of the type negated.
setVerifyUsesString_Negated(isString) == IF isString THEN "false" ELSE "true"

\* setVerifyUsesString_: the value it stores in verifyUsesString_.
setVerifyUsesString_(isString) == IF isString THEN "true" ELSE "false"

\* A call that has done nothing yet.
Called(a, flag) ==
    [called |-> TRUE, keyArg |-> a.keyArg, keyType |-> a.keyType,
     digestAlgorithm |-> DigestAlgorithm(a.digestArg),
     useSync |-> useSync(a.digestArg, a.useSyncArg),
     returned |-> "none", value |-> FALSE, reason |-> "none",
     thrownBy |-> "none", probed |-> FALSE, verifier |-> "none",
     verifierSaid |-> "none", signatureAs |-> "none", engine |-> FALSE,
     subtleAsked |-> FALSE,
     flagBefore |-> flag, flagAfter |-> flag]

\* A failed verification reported as a failure instead of as false.
Resolve_RejectsFalse(r, value) ==
    IF value THEN [r EXCEPT !.returned = "resolved", !.value = value]
    ELSE [r EXCEPT !.returned = "rejected", !.reason = "verification failed"]

\* return SyncPromise.resolve(value)
Resolve(r, value) == [r EXCEPT !.returned = "resolved", !.value = value]

\* return SyncPromise.reject(new Error(message + ex))
Reject(r, message) == [r EXCEPT !.returned = "rejected", !.reason = message]

(***************************************************************************)
(* Lines 92-111 and 115-135: the synchronous path, the same statements for  *)
(* the two key types but for the verifier's name and the message.           *)
(***************************************************************************)
SyncVerify(r, algorithm, message, isString, c) ==
    LET probing == r.flagBefore = "null"
        flag == IF probing /\ c.throws # "createHash"
                THEN setVerifyUsesString_(isString) ELSE r.flagBefore
        p == [r EXCEPT !.probed = probing, !.flagAfter = flag]
    IN  IF probing /\ c.throws = "createHash"
        THEN Reject([p EXCEPT !.thrownBy = "createHash"], message)
        ELSE IF c.throws = "getKeyDer"
        THEN Reject([p EXCEPT !.thrownBy = "getKeyDer"], message)
        ELSE IF c.throws = "createVerify"
        THEN Reject([p EXCEPT !.thrownBy = "createVerify", !.verifier = algorithm],
                    message)
        ELSE LET v == [p EXCEPT !.verifier = algorithm,
                                !.signatureAs = IF flag = "true" THEN "string"
                                                ELSE "buffer"]
             IN  IF c.throws = "verify"
                 THEN Reject([v EXCEPT !.thrownBy = "verify",
                                       !.verifierSaid = "threw"], message)
                 ELSE Resolve([v EXCEPT !.verifierSaid =
                                            IF c.verdict THEN "true" ELSE "false"],
                              c.verdict)

\* Lines 83-89: return crypto.subtle.importKey(...).then(...), outside any try.
\* publicKey.getKeyDer() is evaluated as an argument, before importKey is called.
SubtleVerify(r, c) ==
    IF c.throws = "getKeyDer"
    THEN [r EXCEPT !.returned = "threw", !.thrownBy = "getKeyDer"]
    ELSE IF c.throws = "importKey"
    THEN [r EXCEPT !.engine = TRUE, !.returned = "threw", !.thrownBy = "importKey"]
    ELSE [r EXCEPT !.engine = TRUE, !.returned = "pending"]

verifySignaturePromise(a, c, subtle, isString, flag) ==
    LET r == Called(a, flag)
        rsa == [r EXCEPT !.subtleAsked = TRUE]
        branch == Branch(a, subtle)
    IN  IF branch = "Error decoding public key DER"
        THEN Reject([r EXCEPT !.thrownBy = "PublicKey"],
                    "verifySignature: Error decoding public key DER")
        ELSE IF branch = "crypto.subtle"
        THEN SubtleVerify(rsa, c)
        ELSE IF branch = "RSA-SHA256"
        THEN SyncVerify(rsa, "RSA-SHA256", "verifySignature: Error is RSA verify",
                        isString, c)
        ELSE IF branch = "sha256"
        THEN SyncVerify(r, "sha256", "verifySignature: Error is ECDSA verify",
                        isString, c)
        ELSE IF branch = "Invalid key type"
        THEN Reject(r, "verifySignature: Invalid key type")
        ELSE Reject(r, "verifySignature: Invalid digest algorithm")

(***************************************************************************)
(* The promise that importKey(...).then(...) returns: pending on importKey, *)
(* then pending on crypto.subtle.verify, then fulfilled or rejected.        *)
(***************************************************************************)
Pending == [state |-> "importKey", value |-> FALSE, reason |-> "none",
            engineSaid |-> "none"]

\* importKey's promise is fulfilled: the callback of line 87 returns the
\* promise of crypto.subtle.verify, or throws what crypto.subtle.verify throws.
ThenVerify(p, verifyThrows) ==
    IF verifyThrows
    THEN [p EXCEPT !.state = "rejected", !.engineSaid = "verify threw",
                   !.reason = "crypto.subtle.verify"]
    ELSE [p EXCEPT !.state = "verify"]

\* importKey's promise is rejected: the promise of then() is rejected with
\* the same reason.
ImportKeyFailed(p) ==
    [p EXCEPT !.state = "rejected", !.engineSaid = "importKey rejected",
              !.reason = "crypto.subtle.importKey"]

\* The promise of crypto.subtle.verify is fulfilled: so is the one returned.
VerifyDone(p, verdict) ==
    [p EXCEPT !.state = "fulfilled", !.value = verdict,
              !.engineSaid = IF verdict THEN "true" ELSE "false"]

\* The promise of crypto.subtle.verify is rejected: so is the one returned.
VerifyFailed(p) ==
    [p EXCEPT !.state = "rejected", !.engineSaid = "verify rejected",
              !.reason = "crypto.subtle.verify"]

NotCalled ==
    [Called([keyArg |-> "PublicKey", keyType |-> "RSA",
             digestArg |-> "undefined", useSyncArg |-> "undefined"], "null")
     EXCEPT !.called = FALSE]

VerifyInit ==
    /\ useSubtle \in BOOLEAN
    /\ hashIsString \in BOOLEAN
    /\ verifyUsesString_ = "null"
    /\ call = NotCalled
    /\ promises = EmptyBag
    /\ flagsUsed = {}

Replace(p, q) == (promises (-) SetToBag({p})) (+) SetToBag({q})

\* One call of verifySignaturePromise, to the point where it returns.
Verify ==
    /\ \E a \in CallerArgs :
           \E c \in Collaborators(Branch(a, useSubtle), verifyUsesString_) :
               LET r == verifySignaturePromise(a, c, useSubtle, hashIsString,
                                               verifyUsesString_)
               IN  /\ r.returned = "pending" => BagCardinality(promises) < MaxPromises
                   /\ call' = r
                   /\ verifyUsesString_' = r.flagAfter
                   /\ flagsUsed' = IF r.signatureAs # "none"
                                   THEN flagsUsed \cup {r.flagAfter} ELSE flagsUsed
                   /\ promises' = IF r.returned = "pending"
                                  THEN promises (+) SetToBag({Pending})
                                  ELSE promises
    /\ UNCHANGED <<useSubtle, hashIsString>>
    /\ UNCHANGED codecVars

ImportKeyFulfilled ==
    /\ \E p \in BagToSet(promises) :
          /\ p.state = "importKey"
          /\ \E verifyThrows \in BOOLEAN :
                promises' = Replace(p, ThenVerify(p, verifyThrows))
    /\ UNCHANGED <<useSubtle, hashIsString, verifyUsesString_, call, flagsUsed>>
    /\ UNCHANGED codecVars

ImportKeyRejected ==
    /\ \E p \in BagToSet(promises) :
          /\ p.state = "importKey"
          /\ promises' = Replace(p, ImportKeyFailed(p))
    /\ UNCHANGED <<useSubtle, hashIsString, verifyUsesString_, call, flagsUsed>>
    /\ UNCHANGED codecVars

VerifyFulfilled ==
    /\ \E p \in BagToSet(promises) :
          /\ p.state = "verify"
          /\ \E verdict \in BOOLEAN :
                promises' = Replace(p, VerifyDone(p, verdict))
    /\ UNCHANGED <<useSubtle, hashIsString, verifyUsesString_, call, flagsUsed>>
    /\ UNCHANGED codecVars

VerifyRejected ==
    /\ \E p \in BagToSet(promises) :
          /\ p.state = "verify"
          /\ promises' = Replace(p, VerifyFailed(p))
    /\ UNCHANGED <<useSubtle, hashIsString, verifyUsesString_, call, flagsUsed>>
    /\ UNCHANGED codecVars

VerifyNext ==
    \/ Verify
    \/ ImportKeyFulfilled
    \/ ImportKeyRejected
    \/ VerifyFulfilled
    \/ VerifyRejected

(***************************************************************************)
(* The specifications: the codec and the verifier do not call each other.   *)
(***************************************************************************)
Init == CodecInit /\ VerifyInit

CodecSpec == Init /\ [][CodecNext]_vars

VerifySpec == Init /\ [][VerifyNext]_vars

Next == CodecNext \/ VerifyNext

Spec == Init /\ [][Next]_vars

(***************************************************************************)
(* The properties.  What they need of the specification's vocabulary:       *)
(* the probing order, the tags a decoder reports as matching, the first of  *)
(* them in the probing order, and the failure kinds of the verifier.        *)
(***************************************************************************)
ProbeOrder == <<PublisherPublicKeyDigest, PublisherCertificateDigest,
                PublisherIssuerKeyDigest, PublisherIssuerCertificateDigest>>

Matching(d) == {t \in PublisherType : peekDTag(d, t)}

FirstIndex(S) == CHOOSE i \in 1..Len(ProbeOrder) :
                     /\ ProbeOrder[i] \in S
                     /\ \A j \in 1..(i - 1) : ProbeOrder[j] \notin S

Earliest(S) == IF S = {} THEN -1 ELSE ProbeOrder[FirstIndex(S)]

ProbesFor(S) == IF S = {} THEN ProbeOrder ELSE SubSeq(ProbeOrder, 1, FirstIndex(S))

IsIdentifier(v) == v.publisherType \in PublisherType /\ v.publisherID # NullBytes

MalformedElement == "Error: Invalid publisher ID, got unexpected type"
InvalidState == "Error: Cannot encode PublisherID: field values missing."
UnsupportedAlgorithm == "verifySignature: Invalid digest algorithm"
VerificationEngineError ==
    {"verifySignature: Error is RSA verify", "verifySignature: Error is ECDSA verify",
     "crypto.subtle.importKey", "crypto.subtle.verify"}

\* C1: a call of verifySignaturePromise never throws: whatever the key
\* argument, key type, digest algorithm, engine availability and useSync are
\* and whichever collaborator throws, it returns a promise.
C1_NeverThrows ==
    call.called => call.returned \in {"resolved", "rejected", "pending"}

\* C2: encoding an identifier value of one of the four variants with
\* non-null digest bytes writes an element that decodes to a value with the
\* same tag and the same bytes.
C2_RoundTrip ==
    (lastOp.op = "to_ndnb" /\ IsIdentifier(lastOp.this)) =>
        /\ lastOp.threw = "none"
        /\ Len(encoder.output) = Len(lastOp.encoder.output) + 1
        /\ LET written == <<encoder.output[Len(encoder.output)]>>
               back == from_ndnb(PublisherID, NewDecoder(written))
           IN  /\ back.threw = "none"
               /\ back.this.publisherType = lastOp.this.publisherType
               /\ back.this.publisherID = lastOp.this.publisherID

\* C3: to_ndnb on a value whose tag or digest bytes are null fails with the
\* "field values missing" error and leaves the encoder as it was.
C3_EncodeInvalidFails ==
    (lastOp.op = "to_ndnb" /\ ~IsIdentifier(lastOp.this)) =>
        /\ lastOp.threw = InvalidState
        /\ encoder = lastOp.encoder

\* C4: peekAndGetNextDTag asks the decoder about KEY, CERTIFICATE,
\* ISSUER_KEY, ISSUER_CERTIFICATE in that order up to the first tag that
\* matches, returns that tag (-1 when none matches) and consumes nothing;
\* a successful from_ndnb carries that tag.
C4_TagPrecedence ==
    /\ lastOp.op \in {"peekAndGetNextDTag", "peek", "from_ndnb"} =>
           lastOp.probes = ProbesFor(Matching(lastOp.decoder))
    /\ lastOp.op = "peekAndGetNextDTag" =>
           /\ lastOp.value = Earliest(Matching(lastOp.decoder))
           /\ decoder = lastOp.decoder
    /\ (lastOp.op = "from_ndnb" /\ lastOp.threw = "none") =>
           decoded.publisherType = Earliest(Matching(lastOp.decoder))

\* C4 witness: an element that matches CERTIFICATE and ISSUER_CERTIFICATE
\* has been decoded as CERTIFICATE.
C4_Witness ==
    /\ lastOp.op = "from_ndnb"
    /\ lastOp.threw = "none"
    /\ Matching(lastOp.decoder) =
           {PublisherCertificateDigest, PublisherIssuerCertificateDigest}
    /\ decoded.publisherType = PublisherCertificateDigest

\* C5: from_ndnb on an element that matches none of the four tags fails with
\* the "unexpected type" error and reads nothing from the decoder.
C5_UnknownTagFails ==
    (lastOp.op = "from_ndnb" /\ Matching(lastOp.decoder) = {}) =>
        /\ lastOp.threw = MalformedElement
        /\ decoder.reads = lastOp.decoder.reads
        /\ decoder.offset = lastOp.decoder.offset

\* C5 witness: from_ndnb has been called on an element of another tag.
C5_Witness ==
    /\ lastOp.op = "from_ndnb"
    /\ lastOp.decoder.offset <= Len(lastOp.decoder.input)
    /\ lastOp.decoder.input[lastOp.decoder.offset].tags = {OtherDTag}
    /\ lastOp.threw = MalformedElement

\* C6: a call with a key that has a type and a digest algorithm other than
\* SHA-256 is rejected with "Invalid digest algorithm", whatever the key
\* type, the engine and useSync are, and calls no probe, verifier or engine.
C6_UnsupportedDigest ==
    (call.called /\ call.keyArg # "garbage" /\ call.digestAlgorithm # "SHA256") =>
        /\ call.returned = "rejected"
        /\ call.reason = UnsupportedAlgorithm
        /\ ~call.probed
        /\ ~call.subtleAsked
        /\ call.verifier = "none"
        /\ ~call.engine
        /\ verifyUsesString_ = call.flagBefore

\* C6 witness: such a call with a key that is neither RSA nor ECDSA, where
\* the engine is available.
C6_Witness ==
    /\ call.called
    /\ call.keyType = "OTHER"
    /\ call.digestAlgorithm = "SHA512"
    /\ useSubtle
    /\ ~call.useSync
    /\ call.reason = UnsupportedAlgorithm

\* C7: crypto.subtle is called, and the promise returned is pending, only for
\* an RSA key with SHA-256 where UseSubtleCrypto() holds and useSync is not
\* set; any other call returns a promise that is already settled.
C7_AsyncOnlyForRsa ==
    call.called =>
        LET delegates == /\ call.keyType = "RSA"
                         /\ call.digestAlgorithm = "SHA256"
                         /\ useSubtle
                         /\ ~call.useSync
        IN  /\ call.engine => delegates
            /\ call.returned = "pending" => (delegates /\ call.engine)
            /\ ~delegates => ~call.engine
            /\ ~delegates => call.returned \in {"resolved", "rejected"}

\* C7 witness: an RSA call with useSync set, where the engine is available,
\* has returned a resolved promise.
C7_Witness ==
    /\ call.called
    /\ call.keyType = "RSA"
    /\ call.useSync
    /\ useSubtle
    /\ call.returned = "resolved"
    /\ ~call.engine

\* C8: when the verifier answers true or false the promise is fulfilled with
\* that answer, on the synchronous path and on the crypto.subtle path alike.
C8_ValueIsVerdict ==
    /\ (call.called /\ call.verifierSaid \in {"true", "false"}) =>
           /\ call.returned = "resolved"
           /\ call.value = (call.verifierSaid = "true")
    /\ \A p \in BagToSet(promises) :
           p.engineSaid \in {"true", "false"} =>
               /\ p.state = "fulfilled"
               /\ p.value = (p.engineSaid = "true")

\* C8 witness: a synchronous call and a crypto.subtle call have both met a
\* signature that does not verify.
C8_Witness ==
    /\ call.called
    /\ call.verifierSaid = "false"
    /\ call.returned = "resolved"
    /\ ~call.value
    /\ \E p \in BagToSet(promises) :
           p.engineSaid = "false" /\ p.state = "fulfilled" /\ ~p.value

\* C9: verifyUsesString_ changes only from null to the outcome of the probe,
\* it is set when a verifier is made, and all synchronous verifications
\* used the same value of it.
C9_FlagWriteOnce ==
    /\ [](/\ (call.called /\ call.verifier # "none") =>
                 /\ call.flagAfter # "null"
                 /\ verifyUsesString_ = call.flagAfter
          /\ Cardinality(flagsUsed) <= 1
          /\ flagsUsed \subseteq {verifyUsesString_})
    /\ [][verifyUsesString_' # verifyUsesString_ =>
              /\ verifyUsesString_ = "null"
              /\ verifyUsesString_' = IF hashIsString THEN "true" ELSE "false"]_vars

\* C9 witness: the first synchronous verification has probed and set the
\* flag while a crypto.subtle call was pending.
C9_Witness ==
    /\ call.called
    /\ call.probed
    /\ call.flagBefore = "null"
    /\ verifyUsesString_ = "true"
    /\ call.signatureAs = "string"
    /\ \E p \in BagToSet(promises) : p.state = "importKey"

\* C10: when a collaborator fails in a SHA-256 verification with an RSA or
\* ECDSA key, by throwing on the synchronous path or by failing in
\* crypto.subtle, the promise is rejected with a verification engine error.
C10_EngineErrorRejects ==
    /\ (call.called /\ call.thrownBy \in {"createHash", "getKeyDer", "createVerify",
                                          "verify", "importKey"}) =>
           /\ call.returned = "rejected"
           /\ call.reason \in VerificationEngineError
    /\ \A p \in BagToSet(promises) :
           p.engineSaid \in {"importKey rejected", "verify rejected", "verify threw"} =>
               /\ p.state = "rejected"
               /\ p.reason \in VerificationEngineError

====
